---- MODULE Spec2Model ----
(***************************************************************************)
(* A model of the CVM virtual machine: the data-move primitives of         *)
(* source/runtime/datamanage.cpp acting on the register files of the       *)
(* environments of include/runtime/environment.h, the control flow of a    *)
(* local environment, and the line parser of source/parse.cpp.             *)
(*                                                                         *)
(* Memory is a heap of blocks.  A DataPointer is the index of a block      *)
(* (NullPtr for nullptr); the length of a block is the size that was       *)
(* handed to malloc/calloc.  A write of more bytes than the block holds    *)
(* is undefined behaviour: the bytes inside the block are written and the  *)
(* bytes beyond it either land in allocator slack or overwrite the start   *)
(* of the block allocated next (the action chooses).                       *)
(***************************************************************************)
EXTENDS Integers, Sequences, FiniteSets, TLC

VARIABLES
    tim,        \* TypeInfoMap: tim[i + 1] is the entry of TypeIndex i
    heap,       \* Seq of blocks, each a Seq of bytes
    dyvarb,     \* env id -> Seq of [data, type]: the dynamic registers
    stvarb,     \* env id -> Seq of data pointers: the static registers
    sttype,     \* env id -> Seq of TypeIndex: the function's stvarb_typelist
    penv,       \* env id -> parent env id (NullEnv when not attached)
    tenv,       \* env id -> temp env id (never set by the code)
    timp,       \* env id -> env id whose registry it borrows (NullEnv: none)
    pc,         \* ControlFlow cursor of the local environment
    func,       \* the entry function: Seq of [code, inst]
    state,      \* "running" | "returned" | "ended" | "crashed"
    last,       \* the instruction executed last, with what it read
    pinfo,      \* the parser's ParseInfo, with its diagnostics
    subenv_set  \* env id -> Seq of env ids: the environments it owns

rtvars == <<tim, heap, dyvarb, stvarb, sttype, penv, tenv, timp, pc, func, state, last,
           subenv_set>>

-----------------------------------------------------------------------------
(* Bounds of the model *)

\* longest instruction list of the entry function
MaxInsts == 2

(* Program constants *)

\* nullptr of a DataPointer
NullPtr == 0
\* DataPointer::Size, the machine word in bytes (a 32-bit build)
PointerSize == 4
\* sizeof(InstStruct::Data::Type), the width of a load immediate (16 bits)
DataTypeSize == 2
\* TypeIndex of the null type and of the reserved pointer type
T_Void == 0
T_Pointer == 1

NullEnv == "nullenv"
EnvIds == {"G", "L"}

-----------------------------------------------------------------------------
(* Characters and words (a word is a sequence of one-character strings) *)

Digits == <<"0", "1", "2", "3", "4", "5", "6", "7", "8", "9">>
HexDigits == Digits \o <<"A", "B", "C", "D", "E", "F">>

RECURSIVE IndexOf(_, _, _)
IndexOf(seq, c, i) ==
    IF i > Len(seq) THEN 0
    ELSE IF seq[i] = c THEN i ELSE IndexOf(seq, c, i + 1)

\* value of a digit in the base, -1 when it is none
DigitVal(c, base) ==
    LET k == IndexOf(HexDigits, c, 1)
    IN IF k = 0 \/ k > base THEN -1 ELSE k - 1

is_integer(word, base) ==
    /\ Len(word) > 0
    /\ \A i \in 1..Len(word) : DigitVal(word[i], base) >= 0

RECURSIVE NumVal(_, _, _)
NumVal(word, base, n) ==
    IF n = 0 THEN 0
    ELSE NumVal(word, base, n - 1) * base + DigitVal(word[n], base)

\* the largest unsigned integer of the width in bytes; no number of the
\* model reaches 2^31
UIntMax(width) == IF width >= 4 THEN 2147483647 ELSE 2 ^ (8 * width) - 1

\* PriLib::Convert::to_integer<T>: [ok, val]; on failure errfunc runs and
\* the result is 0
to_integer(word, base, width) ==
    IF is_integer(word, base) /\ NumVal(word, base, Len(word)) <= UIntMax(width)
    THEN [ok |-> TRUE, val |-> NumVal(word, base, Len(word))]
    ELSE [ok |-> FALSE, val |-> 0]

\* the bytes of an unsigned integer in memory, least significant first
LEBytes(v, n) == [i \in 1..n |-> (v \div (256 ^ (i - 1))) % 256]

Min(a, b) == IF a < b THEN a ELSE b


-----------------------------------------------------------------------------
(* TypeInfoMap (typeinfo.h): insertion-ordered, TypeIndex i at tim[i + 1] *)

RECURSIVE TimFindFrom(_, _, _)
TimFindFrom(t, name, i) ==
    IF i > Len(t) THEN -1
    ELSE IF t[i].name = name THEN i - 1 ELSE TimFindFrom(t, name, i + 1)

\* TypeInfoMap::find: the index of the name, -1 when it has none
TimFind(t, name) == TimFindFrom(t, name, 1)

\* TypeInfoMap::insert of a default TypeInfo: appended, size 0
TimInsert(t, name) == Append(t, [name |-> name, size |-> 0])

\* the registry a program starts from: the null type and the pointer type
BaseTim ==
    << [name |-> <<"n", "i", "l">>, size |-> 0],
       [name |-> <<"p", "t", "r">>, size |-> PointerSize] >>

\* Environment::getType(index).size, through the borrowed registry
GetSize(t, type) == t[type + 1].size

-----------------------------------------------------------------------------
(* Memory: a machine state m is [heap, dy, st, spill, rdoob] *)

Zeros(n) == [i \in 1..n |-> 0]

\* the bytes a pointer leads to
BufOf(h, p) == IF p = NullPtr THEN <<>> ELSE h[p]

\* where the bytes written past block p may land: nowhere visible
\* (NullPtr), or on the block allocated after it
Victims(p) == {NullPtr, p + 1}

Overwrite(blk, bytes) ==
    [i \in 1..Len(blk) |-> IF i <= Len(bytes) THEN bytes[i] ELSE blk[i]]

\* a write of bytes at the start of block p
Store(m, p, bytes, victim) ==
    IF Len(bytes) = 0 \/ p = NullPtr THEN m
    ELSE
    LET blk == m.heap[p]
        over == IF Len(bytes) > Len(blk)
                THEN SubSeq(bytes, Len(blk) + 1, Len(bytes)) ELSE <<>>
        h1 == [m.heap EXCEPT ![p] = Overwrite(blk, bytes)]
        h2 == IF victim \notin DOMAIN h1 \/ over = <<>> THEN h1
              ELSE [h1 EXCEPT ![victim] = Overwrite(h1[victim], over)]
    IN [m EXCEPT !.heap = h2, !.spill = @ + Len(over)]

\* PriLib::Memory::copyTo(dst, src, size): the first size bytes of the
\* source region; a read beyond the region is flagged
CopyTo(m, dst, region, size, victim) ==
    LET n == Min(size, Len(region))
        m1 == Store(m, dst, SubSeq(region, 1, n) \o [i \in 1..(size - n) |-> 238], victim)
    IN [m1 EXCEPT !.rdoob = @ \/ size > Len(region)]

\* PriLib::Memory::clear(dst, size)
Clear(m, dst, size, victim) == Store(m, dst, Zeros(size), victim)

\* calloc(size, 1): a fresh zeroed block; calloc(0, 1) may return nullptr
\* (znull) or a block of no bytes.  [m, p]
AllocClear(m, size, znull) ==
    IF size = 0 /\ znull THEN [m |-> m, p |-> NullPtr]
    ELSE [m |-> [m EXCEPT !.heap = Append(@, Zeros(size))], p |-> Len(m.heap) + 1]

-----------------------------------------------------------------------------
(* Operand adapters *)

drm_null == "drm_null"
drm_register_dynamic == "drm_register_dynamic"
drm_register_static == "drm_register_static"

\* mutant: the zero register is the first dynamic register of the function
NullDstDynamic == [mode |-> drm_register_dynamic, env |-> "L", idx |-> 1, typep |-> TRUE]

NullDst == [mode |-> drm_null, env |-> NullEnv, idx |-> 0, typep |-> FALSE]

GetDstDataDynamic(env, idx) ==
    [mode |-> drm_register_dynamic, env |-> env, idx |-> idx, typep |-> TRUE]

GetDstDataStatic(env, idx) ==
    [mode |-> drm_register_static, env |-> env, idx |-> idx, typep |-> FALSE]

GetSrcDataDynamic(m, env, idx) ==
    [data |-> m.dy[env][idx].data, type |-> m.dy[env][idx].type]

GetSrcDataStatic(m, env, idx, type) ==
    [data |-> m.st[env][idx], type |-> type]

\* *dst.datap
DataAt(m, dst) ==
    IF dst.mode = drm_register_dynamic THEN m.dy[dst.env][dst.idx].data
    ELSE m.st[dst.env][dst.idx]

\* *dst.datap = p
SetDataAt(m, dst, p) ==
    IF dst.mode = drm_register_dynamic
    THEN [m EXCEPT !.dy[dst.env][dst.idx].data = p]
    ELSE [m EXCEPT !.st[dst.env][dst.idx] = p]

\* if (dst.typep) *dst.typep = type
SetTypeAt(m, dst, type) ==
    IF dst.typep THEN [m EXCEPT !.dy[dst.env][dst.idx].type = type] ELSE m

-----------------------------------------------------------------------------
(* The data-move primitives *)

\* mutant: the dynamic case copies the bytes into a buffer of its own
MoveRegisterByteCopy(t, m, dst, src, victim) ==
    LET m1 == CASE dst.mode = drm_null -> m
                [] dst.mode = drm_register_dynamic ->
                     LET a == AllocClear(m, GetSize(t, src.type), FALSE)
                     IN CopyTo(SetDataAt(a.m, dst, a.p), a.p, BufOf(m.heap, src.data),
                               GetSize(t, src.type), NullPtr)
                [] dst.mode = drm_register_static ->
                     CopyTo(m, DataAt(m, dst), BufOf(m.heap, src.data),
                            GetSize(t, src.type), victim)
    IN SetTypeAt(m1, dst, src.type)

\* mutant: the static case rebinds the pointer as the dynamic case does
MoveRegisterRebindStatic(t, m, dst, src, victim) ==
    LET m1 == CASE dst.mode = drm_null -> m
                [] OTHER -> SetDataAt(m, dst, src.data)
    IN SetTypeAt(m1, dst, src.type)

\* mutant: the type store is forgotten
MoveRegisterNoType(t, m, dst, src, victim) ==
    CASE dst.mode = drm_null -> m
      [] dst.mode = drm_register_dynamic -> SetDataAt(m, dst, src.data)
      [] dst.mode = drm_register_static ->
           CopyTo(m, DataAt(m, dst), BufOf(m.heap, src.data),
                  GetSize(t, src.type), victim)

MoveRegister(t, m, dst, src, victim) ==
    LET m1 == CASE dst.mode = drm_null -> m
                [] dst.mode = drm_register_dynamic -> SetDataAt(m, dst, src.data)
                [] dst.mode = drm_register_static ->
                     CopyTo(m, DataAt(m, dst), BufOf(m.heap, src.data),
                            GetSize(t, src.type), victim)
    IN SetTypeAt(m1, dst, src.type)

\* mutant: the dynamic case allocates the literal's size, not the type's
LoadDataAllocSrcSize(t, m, dst, src, dsttype, srcsize, victim, znull) ==
    CASE dst.mode = drm_null -> m
      [] dst.mode = drm_register_dynamic ->
           LET a == AllocClear(m, srcsize, znull)
               m1 == SetDataAt(a.m, dst, a.p)
               m2 == CopyTo(m1, DataAt(m1, dst), src,
                            Min(GetSize(t, dsttype), srcsize), victim)
           IN [m2 EXCEPT !.dy[dst.env][dst.idx].type = dsttype]
      [] dst.mode = drm_register_static ->
           LET m1 == Clear(m, DataAt(m, dst), GetSize(t, dsttype), victim)
           IN CopyTo(m1, DataAt(m1, dst), src,
                     Min(GetSize(t, dsttype), srcsize), victim)

\* mutant: the dynamic case writes into the buffer the register already
\* has and allocates only when it has none
LoadDataInPlace(t, m, dst, src, dsttype, srcsize, victim, znull) ==
    CASE dst.mode = drm_null -> m
      [] dst.mode = drm_register_dynamic ->
           LET a == IF DataAt(m, dst) = NullPtr
                    THEN AllocClear(m, GetSize(t, dsttype), znull)
                    ELSE [m |-> Clear(m, DataAt(m, dst), GetSize(t, dsttype), NullPtr),
                          p |-> DataAt(m, dst)]
               m1 == SetDataAt(a.m, dst, a.p)
               m2 == CopyTo(m1, DataAt(m1, dst), src,
                            Min(GetSize(t, dsttype), srcsize), NullPtr)
           IN [m2 EXCEPT !.dy[dst.env][dst.idx].type = dsttype, !.spill = 0]
      [] dst.mode = drm_register_static ->
           LET m1 == Clear(m, DataAt(m, dst), GetSize(t, dsttype), victim)
           IN CopyTo(m1, DataAt(m1, dst), src,
                     Min(GetSize(t, dsttype), srcsize), victim)

LoadData(t, m, dst, src, dsttype, srcsize, victim, znull) ==
    CASE dst.mode = drm_null -> m
      [] dst.mode = drm_register_dynamic ->
           LET a == AllocClear(m, GetSize(t, dsttype), znull)
               m1 == SetDataAt(a.m, dst, a.p)
               m2 == CopyTo(m1, DataAt(m1, dst), src,
                            Min(GetSize(t, dsttype), srcsize), victim)
           IN [m2 EXCEPT !.dy[dst.env][dst.idx].type = dsttype]
      [] dst.mode = drm_register_static ->
           LET m1 == Clear(m, DataAt(m, dst), GetSize(t, dsttype), victim)
           IN CopyTo(m1, DataAt(m1, dst), src,
                     Min(GetSize(t, dsttype), srcsize), victim)

LoadDataPointer(t, m, dst, src, srcsize, victim, znull) ==
    CASE dst.mode = drm_null -> m
      [] dst.mode = drm_register_dynamic ->
           LET b == AllocClear(m, srcsize, znull)
               m1 == CopyTo(b.m, b.p, src, srcsize, NullPtr)
               a == AllocClear(m1, PointerSize, znull)
               m2 == SetDataAt(a.m, dst, a.p)
               m3 == CopyTo(m2, DataAt(m2, dst), LEBytes(b.p, PointerSize),
                            PointerSize, victim)
           IN [m3 EXCEPT !.dy[dst.env][dst.idx].type = T_Pointer]
      [] dst.mode = drm_register_static ->
           LET b == AllocClear(m, srcsize, znull)
               m1 == CopyTo(b.m, b.p, src, srcsize, NullPtr)
           IN CopyTo(m1, DataAt(m1, dst), LEBytes(b.p, PointerSize),
                     PointerSize, victim)

-----------------------------------------------------------------------------
(* Instruction structure and its lowering to the runtime form *)

\* mutant: ret builds the instruction of db_opreg
InstClassRetDebug(code) ==
    CASE code = "mov" -> "Move"
      [] code = "load" -> "Load"
      [] code = "ret" -> "Debug_OutputRegister"
      [] code = "db_opreg" -> "Debug_OutputRegister"
      [] OTHER -> "nullptr"

\* parseFuncInstBase's parsemap: the instruction class an opcode builds
InstClass(code) ==
    CASE code = "mov" -> "Move"
      [] code = "load" -> "Load"
      [] code = "ret" -> "Return"
      [] code = "db_opreg" -> "Debug_OutputRegister"
      [] OTHER -> "nullptr"

\* parseDataInst: [ok, val] of an immediate; base 16 after a 0x prefix
parseDataInst(word) ==
    IF Len(word) > 2 /\ word[1] = "0" /\ word[2] = "x"
    THEN to_integer(SubSeq(word, 3, Len(word)), 16, DataTypeSize)
    ELSE to_integer(word, 10, DataTypeSize)

\* Compile of a register reference in a function with dyvarb_count dynamic
\* registers: [kind, etype, idx] with idx counted from 0
CompileRegister(r, dyvarb_count) ==
    CASE r.rtype = "r_0" -> [kind |-> "null", etype |-> "e_current", idx |-> 0]
      [] r.rtype = "r_g" -> [kind |-> "dyn", etype |-> "e_parent", idx |-> r.index]
      [] r.rtype = "r_t" -> [kind |-> "dyn", etype |-> "e_temp", idx |-> r.index]
      [] OTHER ->
           IF r.index < dyvarb_count
           THEN [kind |-> "dyn", etype |-> r.etype, idx |-> r.index]
           ELSE [kind |-> "st", etype |-> r.etype, idx |-> r.index - dyvarb_count]

\* Environment::getDataRegisterSet(etype), as the id of the owning
\* environment; NullEnv when the link followed is nullptr
getDataRegisterSet(self, etype) ==
    CASE etype = "e_current" -> self
      [] etype = "e_parent" -> penv[self]
      [] etype = "e_temp" -> tenv[self]

\* the destination adapter of a compiled register
DstOf(self, c) ==
    LET e == getDataRegisterSet(self, c.etype)
    IN CASE c.kind = "null" -> NullDst
         [] c.kind = "dyn" -> GetDstDataDynamic(e, c.idx + 1)
         [] c.kind = "st" -> GetDstDataStatic(e, c.idx + 1)

\* the source adapter of a compiled register; the zero register reads as
\* null data of the null type
SrcOf(self, m, c) ==
    LET e == getDataRegisterSet(self, c.etype)
    IN CASE c.kind = "null" -> [data |-> NullPtr, type |-> T_Void]
         [] c.kind = "dyn" -> GetSrcDataDynamic(m, e, c.idx + 1)
         [] c.kind = "st" -> GetSrcDataStatic(m, e, c.idx + 1, sttype[e][c.idx + 1])

\* a register whose environment link is nullptr cannot be reached
Reachable(self, c) ==
    c.kind = "null" \/ getDataRegisterSet(self, c.etype) # NullEnv

-----------------------------------------------------------------------------
(* The entry function's activation *)

\* the entry function's register layout: two dynamic registers, a static
\* register of type 2 (u16) and one of type 3 (u8)
EntryFunc == [dyvarb_count |-> 2, stvarb_typelist |-> <<2, 3>>]

\* the register file CreateLoaclEnvironment / CreateGlobalEnvironment builds:
\* n dynamic registers {null, 0}
NewDynamic(n) == [i \in 1..n |-> [data |-> NullPtr, type |-> T_Void]]

Machine == [heap |-> heap, dy |-> dyvarb, st |-> stvarb, spill |-> 0, rdoob |-> FALSE]

Reg(rtype, etype, index) == [rtype |-> rtype, etype |-> etype, index |-> index]

\* the register operands the instructions may name: %0, the two dynamic and
\* the two static registers of the function, %g0 and %t0
RunRegisters ==
    { Reg("r_0", "e_current", 0), Reg("r_n", "e_current", 0),
      Reg("r_n", "e_current", 1), Reg("r_n", "e_current", 2),
      Reg("r_n", "e_current", 3), Reg("r_g", "e_current", 0),
      Reg("r_t", "e_current", 0) }

\* the immediates, as written in the source
ImmWords == { <<"0", "x", "1", "2", "3", "4">> }

\* the literal data pool: DataIndex -> blob
DataPool == << <<17, 34, 51>> >>

RunCodes == {"mov", "load", "ret", "db_opreg"}

NoLast == [op |-> "none"]

\* the environments at the entry of the entry function
InitEnvironments ==
    /\ tim = BaseTim \o << [name |-> <<"u", "1", "6">>, size |-> 2],
                          [name |-> <<"u", "8">>, size |-> 1] >>
    /\ heap = << Zeros(2), Zeros(1) >>
    /\ dyvarb = [e \in EnvIds |->
                   IF e = "L" THEN NewDynamic(EntryFunc.dyvarb_count) ELSE NewDynamic(1)]
    /\ stvarb = [e \in EnvIds |-> IF e = "L" THEN <<1, 2>> ELSE <<>>]
    /\ sttype = [e \in EnvIds |-> IF e = "L" THEN EntryFunc.stvarb_typelist ELSE <<>>]
    /\ penv = [e \in EnvIds |-> IF e = "L" THEN "G" ELSE NullEnv]
    /\ tenv = [e \in EnvIds |-> NullEnv]
    /\ timp = [e \in EnvIds |-> "G"]
    /\ subenv_set = [e \in EnvIds |-> IF e = "G" THEN <<"L">> ELSE <<>>]
    /\ pc = 0
    /\ state = "running"
    /\ last = NoLast

\* the entry function has the instructions of the opcodes
FuncOf(codes) == [i \in DOMAIN codes |-> [code |-> codes[i], inst |-> InstClass(codes[i])]]

InitRun ==
    /\ InitEnvironments
    /\ \E n \in 0..MaxInsts : \E codes \in [1..n -> RunCodes] : func = FuncOf(codes)

\* mutant: the cursor is not moved
AdvanceStay(m, l) ==
    /\ heap' = m.heap
    /\ dyvarb' = m.dy
    /\ stvarb' = m.st
    /\ pc' = pc
    /\ last' = [l EXCEPT !.spill = m.spill, !.rdoob = m.rdoob]
    /\ UNCHANGED <<tim, sttype, penv, tenv, timp, func, state, pinfo, subenv_set>>

\* the instruction has run: its effect is published and Advance is taken
Advance(m, l) ==
    /\ heap' = m.heap
    /\ dyvarb' = m.dy
    /\ stvarb' = m.st
    /\ pc' = pc + 1
    /\ last' = [l EXCEPT !.spill = m.spill, !.rdoob = m.rdoob]
    /\ UNCHANGED <<tim, sttype, penv, tenv, timp, func, state, pinfo, subenv_set>>

\* an operand behind a nullptr link is dereferenced: the run aborts
Crash(l) ==
    /\ state' = "crashed"
    /\ last' = l
    /\ UNCHANGED <<tim, heap, dyvarb, stvarb, sttype, penv, tenv, timp, pc, func, pinfo, subenv_set>>

Fetch(class) ==
    /\ state = "running"
    /\ pc < Len(func)
    /\ func[pc + 1].inst = class

Record(op, d, dst, src, lit, type) ==
    [op |-> op, code |-> func[pc + 1].code, pc |-> pc, d |-> d, dst |-> dst,
     src |-> src, lit |-> lit, type |-> type, spill |-> 0, rdoob |-> FALSE,
     pre |-> [heap |-> heap, dy |-> dyvarb, st |-> stvarb]]

\* mov %dst, %src
ExecMove ==
    /\ Fetch("Move")
    /\ \E rd \in RunRegisters, rs \in RunRegisters :
         LET d == CompileRegister(rd, EntryFunc.dyvarb_count)
             s == CompileRegister(rs, EntryFunc.dyvarb_count)
         IN IF ~(Reachable("L", d) /\ Reachable("L", s))
            THEN Crash(Record("mov", d, NullDst, s, <<>>, 0))
            ELSE LET dst == DstOf("L", d)
                     src == SrcOf("L", Machine, s)
                 IN \E victim \in (IF dst.mode = drm_register_static
                                   THEN Victims(DataAt(Machine, dst)) ELSE {NullPtr}) :
                       Advance(MoveRegister(tim, Machine, dst, src, victim),
                               Record("mov", d, dst, [reg |-> s, data |-> src.data, type |-> src.type],
                                      <<>>, src.type))

\* the choices the C library and the heap layout leave open
VictimsOf(dst) ==
    IF dst.mode = drm_register_static THEN Victims(DataAt(Machine, dst)) ELSE {NullPtr}

ZeroAlloc(size) == IF size = 0 THEN BOOLEAN ELSE {FALSE}

TypeIndexes == 0..(Len(tim) - 1)

\* load %dst, <imm>, <type>: LoadData from the temporary holding the
\* immediate
ExecLoad1 ==
    /\ Fetch("Load")
    /\ \E rd \in RunRegisters, w \in ImmWords, type \in TypeIndexes :
         LET d == CompileRegister(rd, EntryFunc.dyvarb_count)
             lit == LEBytes(parseDataInst(w).val, DataTypeSize)
         IN IF ~Reachable("L", d)
            THEN Crash(Record("load1", d, NullDst, <<>>, lit, type))
            ELSE LET dst == DstOf("L", d)
                 IN \E victim \in VictimsOf(dst), znull \in ZeroAlloc(GetSize(tim, type)) :
                       Advance(LoadData(tim, Machine, dst, lit, type, DataTypeSize, victim, znull),
                               Record("load1", d, dst, <<>>, lit, type))

\* load %dst, #<n>, <type>: LoadData from the blob of the data pool, or
\* LoadDataPointer when the type is the pointer type
ExecLoad2 ==
    /\ Fetch("Load")
    /\ \E rd \in RunRegisters, di \in DOMAIN DataPool, type \in TypeIndexes :
         LET d == CompileRegister(rd, EntryFunc.dyvarb_count)
             lit == DataPool[di]
         IN IF ~Reachable("L", d)
            THEN Crash(Record("load2", d, NullDst, <<>>, lit, type))
            ELSE LET dst == DstOf("L", d)
                 IN IF type = T_Pointer
                    THEN \E victim \in VictimsOf(dst), znull \in ZeroAlloc(Len(lit)) :
                           Advance(LoadDataPointer(tim, Machine, dst, lit, Len(lit), victim, znull),
                                   Record("loadp", d, dst, <<>>, lit, type))
                    ELSE \E victim \in VictimsOf(dst), znull \in ZeroAlloc(GetSize(tim, type)) :
                           Advance(LoadData(tim, Machine, dst, lit, type, Len(lit), victim, znull),
                                   Record("load2", d, dst, <<>>, lit, type))

\* db_opreg: prints the dynamic registers and advances
ExecDebug ==
    /\ Fetch("Debug_OutputRegister")
    /\ pc' = pc + 1
    /\ last' = Record("db_opreg", <<>>, NullDst, <<>>, <<>>, 0)
    /\ UNCHANGED <<tim, heap, dyvarb, stvarb, sttype, penv, tenv, timp, func, state, pinfo, subenv_set>>

\* ret: yields Return, the VM leaves the local environment
ExecReturn ==
    /\ Fetch("Return")
    /\ state' = "returned"
    /\ last' = Record("ret", <<>>, NullDst, <<>>, <<>>, 0)
    /\ UNCHANGED <<tim, heap, dyvarb, stvarb, sttype, penv, tenv, timp, pc, func, pinfo, subenv_set>>

\* the cursor is past the last instruction: the loop ends
RunOff ==
    /\ state = "running"
    /\ pc = Len(func)
    /\ state' = "ended"
    /\ UNCHANGED <<tim, heap, dyvarb, stvarb, sttype, penv, tenv, timp, pc, func, last, pinfo, subenv_set>>

NextRun ==
    \/ ExecMove
    \/ ExecLoad1
    \/ ExecLoad2
    \/ ExecDebug
    \/ ExecReturn
    \/ RunOff

-----------------------------------------------------------------------------
(* The parser of source/parse.cpp.  A line and a word are sequences of     *)
(* one-character strings.  P is the ParseInfo together with what the       *)
(* parser wrote to stderr (errs), whether it is still reading (status) and *)
(* the line read last with the ParseInfo before it (line, pre) and the    *)
(* line read before that one (above).                                      *)

\* sizeof(InstStruct::DataIndex::Type)
DataIndexSize == 4
\* currfunc before the first .func header: an indeterminate pointer
NoFunc == 0
\* a local of parseRegister that no branch assigned
Indeterminate == "indeterminate"

Letters ==
    {"a", "b", "c", "d", "e", "f", "g", "h", "i", "j", "k", "l", "m", "n",
     "o", "p", "q", "r", "s", "t", "u", "v", "w", "x", "y", "z", "_"}

isdigit(c) == DigitVal(c, 10) >= 0
\* \w of std::regex
IsWordChar(c) == c \in Letters \/ DigitVal(c, 16) >= 0
isblank(c) == c = " " \/ c = "\t"

\* mutant: the messages of the two duplicate-name codes are exchanged
geterrmsgSwapped(pec) ==
    CASE pec = "PEC_NumTooLarge" -> "Number too large"
      [] pec = "PEC_URDid" -> "Unrecognized data index"
      [] pec = "PEC_URNum" -> "Unrecognized number"
      [] pec = "PEC_URCmd" -> "Unrecognized command"
      [] pec = "PEC_URIns" -> "Unrecognized instruction"
      [] pec = "PEC_UREnv" -> "Unrecognized environment"
      [] pec = "PEC_URReg" -> "Unrecognized register"
      [] pec = "PEC_UREscape" -> "Unrecognized escape"
      [] pec = "PEC_UFType" -> "Unfind type"
      [] pec = "PEC_UFFunc" -> "Unfind function"
      [] pec = "PEC_DUType" -> "func name duplicate"
      [] pec = "PEC_DUFunc" -> "type name duplicate"
      [] pec = "PEC_DUDataId" -> "data index duplicate"

\* ParseInfo::geterrmsg
geterrmsg(pec) ==
    CASE pec = "PEC_NumTooLarge" -> "Number too large"
      [] pec = "PEC_URDid" -> "Unrecognized data index"
      [] pec = "PEC_URNum" -> "Unrecognized number"
      [] pec = "PEC_URCmd" -> "Unrecognized command"
      [] pec = "PEC_URIns" -> "Unrecognized instruction"
      [] pec = "PEC_UREnv" -> "Unrecognized environment"
      [] pec = "PEC_URReg" -> "Unrecognized register"
      [] pec = "PEC_UREscape" -> "Unrecognized escape"
      [] pec = "PEC_UFType" -> "Unfind type"
      [] pec = "PEC_UFFunc" -> "Unfind function"
      [] pec = "PEC_DUType" -> "type name duplicate"
      [] pec = "PEC_DUFunc" -> "func name duplicate"
      [] pec = "PEC_DUDataId" -> "data index duplicate"

\* a line of stderr: "Parse Error [for '<msg>'] [at '<at>'] in line(<n>)."
ErrLine(P, msg, at) == [line |-> P.lcount, msg |-> msg, at |-> at]

\* putErrorLine()
putErrorLine0(P) == [P EXCEPT !.errs = Append(@, ErrLine(P, "", <<>>))]

\* putErrorLine(pec)
putErrorLine(P, pec) == [P EXCEPT !.errs = Append(@, ErrLine(P, geterrmsg(pec), <<>>))]

\* putErrorLine(pec, msg)
putErrorLineAt(P, pec, word) ==
    [P EXCEPT !.errs = Append(@, ErrLine(P, geterrmsg(pec), word))]

\* an exception nobody catches, or an access through an invalid pointer or
\* index: the process ends
Abort(P) == [P EXCEPT !.status = "aborted"]

\* parseNumber<T>: [P, v]
parseNumber(P, word, width) ==
    LET r == to_integer(word, 10, width)
    IN [P |-> IF r.ok THEN P
              ELSE putErrorLine(P, IF is_integer(word, 10)
                                   THEN "PEC_NumTooLarge" ELSE "PEC_URNum"),
        v |-> r.val]

\* parseIdentifier: %% and %# stand for % and #; [P, v]
RECURSIVE parseIdentifierFrom(_, _, _, _, _)
parseIdentifierFrom(P, word, i, escape, mword) ==
    IF i > Len(word)
    THEN [P |-> IF escape THEN putErrorLine(P, "PEC_UREscape") ELSE P, v |-> mword]
    ELSE LET c == word[i]
         IN IF escape
            THEN IF c = "%" \/ c = "#"
                 THEN parseIdentifierFrom(P, word, i + 1, FALSE, Append(mword, c))
                 ELSE parseIdentifierFrom(putErrorLine(P, "PEC_UREscape"), word,
                                          i + 1, FALSE, mword)
            ELSE IF c = "%"
                 THEN parseIdentifierFrom(P, word, i + 1, TRUE, mword)
                 ELSE parseIdentifierFrom(P, word, i + 1, FALSE, Append(mword, c))

parseIdentifier(P, word) == parseIdentifierFrom(P, word, 1, FALSE, <<>>)

\* parseType: the index of a declared type, else "Unfind type" and 0
parseType(P, word) ==
    LET id == parseIdentifier(P, word)
        index == TimFind(P.tim, id.v)
    IN IF index >= 0 THEN [P |-> id.P, v |-> index]
       ELSE [P |-> putErrorLine(id.P, "PEC_UFType"), v |-> T_Void]

\* parseDataIndex: #<number>
parseDataIndex(P, word) ==
    LET P1 == IF Len(word) = 0 \/ word[1] # "#"
              THEN putErrorLineAt(P, "PEC_URDid", word) ELSE P
    IN parseNumber(P1, SubSeq(word, 2, Len(word)), DataIndexSize)

\* parseDataInst with its errfunc: [P, v]
parseDataInstErr(P, word) ==
    LET r == parseDataInst(word)
    IN [P |-> IF r.ok THEN P ELSE putErrorLineAt(P, "PEC_URNum", word), v |-> r.val]

\* the length of the longest run of digits from position i
RECURSIVE DigitRun(_, _)
DigitRun(w, i) ==
    IF i <= Len(w) /\ isdigit(w[i]) THEN 1 + DigitRun(w, i + 1) ELSE 0

\* parseRegister: [P, v] with v = [rtype, etype, index]
parseRegister(P, word) ==
    IF Len(word) = 0 \/ word[1] # "%"
    THEN [P |-> putErrorLine0(P), v |-> Reg("r_n", "e_current", 0)]
    ELSE IF word = <<"%", "r", "e", "s">>
    THEN [P |-> P, v |-> Reg("r_res", "e_current", 0)]
    ELSE IF word = <<"%", "0">>
    THEN [P |-> P, v |-> Reg("r_0", "e_current", 0)]
    ELSE
    LET c == IF Len(word) >= 2 THEN word[2] ELSE ""
        rtype == CASE c = "g" -> "r_g"
                   [] c = "t" -> "r_t"
                   [] isdigit(c) -> "r_n"
                   [] OTHER -> Indeterminate
        P1 == IF rtype = Indeterminate THEN putErrorLine0(P) ELSE P
        mword == SubSeq(word, IF c = "g" \/ c = "t" THEN 3 ELSE 2, Len(word))
        nd == DigitRun(mword, 1)
        rest == SubSeq(mword, nd + 1, Len(mword))
        estr == SubSeq(rest, 3, Len(rest) - 1)
        \* (\d+)
        rc == nd > 0 /\ rest = <<>>
        \* (\d+)\(\%(\w+)\)
        re == /\ nd > 0
              /\ Len(rest) >= 4
              /\ rest[1] = "(" /\ rest[2] = "%" /\ rest[Len(rest)] = ")"
              /\ \A i \in 1..Len(estr) : IsWordChar(estr[i])
        n == parseNumber(P1, SubSeq(mword, 1, nd), 2)
    IN IF rc THEN [P |-> n.P, v |-> Reg(rtype, "e_current", n.v)]
       ELSE IF re
       THEN CASE estr = <<"e", "n", "v">> ->
                   [P |-> n.P, v |-> Reg(rtype, "e_current", n.v)]
              [] estr = <<"t", "e", "n", "v">> ->
                   [P |-> n.P, v |-> Reg(rtype, "e_temp", n.v)]
              [] estr = <<"p", "e", "n", "v">> ->
                   [P |-> n.P, v |-> Reg(rtype, "e_parent", n.v)]
              [] OTHER ->
                   [P |-> putErrorLine(n.P, "PEC_UREnv"),
                    v |-> Reg(rtype, Indeterminate, n.v)]
       ELSE [P |-> putErrorLine(P1, "PEC_URReg"),
             v |-> Reg(rtype, Indeterminate, Indeterminate)]

\* the separators of parseLineBase
blanks == {" ", "\t", ","}

\* PriLib::Convert::split: the non-empty runs between separators, in order
RECURSIVE splitFrom(_, _, _, _)
splitFrom(line, i, cur, out) ==
    LET out1 == IF cur = <<>> THEN out ELSE Append(out, cur)
    IN IF i > Len(line) THEN out1
       ELSE IF line[i] \in blanks THEN splitFrom(line, i + 1, <<>>, out1)
       ELSE splitFrom(line, i + 1, Append(cur, line[i]), out)

split(line) == splitFrom(line, 1, <<>>, <<>>)

\* getSectionKeyMap: ks_nil for a name it does not hold
getSectionKeyMap(name) ==
    CASE name = <<"p", "r", "o", "g", "r", "a", "m">> -> "ks_program"
      [] name = <<"i", "m", "p", "o", "r", "t", "s">> -> "ks_imports"
      [] name = <<"e", "x", "p", "o", "r", "t", "s">> -> "ks_exports"
      [] name = <<"d", "a", "t", "a", "s">> -> "ks_datas"
      [] name = <<"m", "o", "d", "u", "l", "e">> -> "ks_module"
      [] name = <<"f", "u", "n", "c">> -> "ks_func"
      [] name = <<"t", "y", "p", "e">> -> "ks_type"
      [] OTHER -> "ks_nil"

\* InstStruct::FunctionInfo() as the parser creates it
FunctionInfo0 == [dyvarb_count |-> 0, stvarb_typelist |-> <<>>, instdata |-> <<>>]

\* std::map::find / operator[] on a map kept as a function
MapHas(map, key) == key \in DOMAIN map
MapPut(map, key, val) == [k \in DOMAIN map \cup {key} |-> IF k = key THEN val ELSE map[k]]

\* parseSection: a .func or .type header; the other sections only switch
\* currsection
parseSection(P, code, list) ==
    CASE code = "ks_func" ->
           LET P1 == IF Len(list) # 1 THEN putErrorLine0(P) ELSE P
           IN IF Len(list) = 0 THEN Abort(P1)
              ELSE LET name == parseIdentifier(P1, list[1])
                   IN IF ~MapHas(name.P.functable, name.v)
                      THEN [name.P EXCEPT
                              !.funcs = Append(@, FunctionInfo0),
                              !.functable = MapPut(@, list[1], Len(P.funcs) + 1),
                              !.currfunc = Len(P.funcs) + 1]
                      ELSE putErrorLine(name.P, "PEC_DUFunc")
      [] code = "ks_type" ->
           LET P1 == IF Len(list) # 1 THEN putErrorLine0(P) ELSE P
           IN IF Len(list) = 0 THEN Abort(P1)
              ELSE LET name == parseIdentifier(P1, list[1])
                   IN IF TimFind(name.P.tim, name.v) >= 0
                      THEN putErrorLine(name.P, "PEC_DUType")
                      ELSE [name.P EXCEPT !.currtype = name.v,
                                          !.tim = TimInsert(@, name.v)]
      [] OTHER -> P

\* PriLib::Convert::to_base16: the bytes of a hex word, least significant
\* first, two digits to a byte
to_base16(word) ==
    LET n == Len(word)
    IN [k \in 1..((n + 1) \div 2) |->
          IF n - 2 * k + 1 >= 1
          THEN DigitVal(word[n - 2 * k + 1], 16) * 16 + DigitVal(word[n - 2 * k + 2], 16)
          ELSE DigitVal(word[1], 16)]

\* parseDataLarge into a zeroed buffer of size bytes: [P, buffer, oob];
\* oob when to_base16 writes past the end of the buffer
parseDataLarge(P, size, word) ==
    IF is_integer(word, 16)
    THEN LET bytes == to_base16(word)
         IN [P |-> P,
             buffer |-> [i \in 1..size |-> IF i <= Len(bytes) THEN bytes[i] ELSE 0],
             oob |-> Len(bytes) > size]
    ELSE [P |-> putErrorLine(P, "PEC_URNum"), buffer |-> Zeros(size), oob |-> FALSE]

\* the data directive of the datas section
parseData(P, list) ==
    IF Len(list) # 3 THEN P
    ELSE LET di == parseDataIndex(P, list[1])
         IN IF MapHas(P.datamap, di.v)
            THEN putErrorLine(di.P, "PEC_DUDataId")
            ELSE LET size == parseNumber(di.P, list[3], PointerSize)
                     w == list[2]
                 IN IF Len(w) <= 2 \/ w[1] # "0" \/ w[2] # "x"
                    THEN putErrorLineAt(size.P, "PEC_URNum", w)
                    ELSE IF (Len(w) - 2) \div 2 <= size.v
                    THEN LET r == parseDataLarge(size.P, size.v, SubSeq(w, 3, Len(w)))
                         IN [r.P EXCEPT !.datamap = MapPut(@, di.v, r.buffer),
                                        !.oob = @ \/ r.oob]
                    ELSE putErrorLineAt(size.P, "PEC_NumTooLarge", w)

\* parseSectionInside: a directive of the current section
parseSectionInside(P, code, list) ==
    LET sec == P.currsection
    IN CASE sec = "ks_func" /\ code = <<"a", "r", "g">> -> P
         [] sec = "ks_func" /\ code = <<"d", "y", "v", "a", "r", "b">> ->
              IF Len(list) = 1
              THEN LET n == parseNumber(P, list[1], PointerSize)
                   IN IF P.currfunc = NoFunc THEN Abort(n.P)
                      ELSE [n.P EXCEPT !.funcs[P.currfunc].dyvarb_count = n.v]
              ELSE putErrorLine0(P)
         [] sec = "ks_func" /\ code = <<"s", "t", "v", "a", "r", "b">> ->
              IF Len(list) = 2
              THEN LET count == parseNumber(P, list[1], PointerSize)
                       index == parseType(count.P, list[2])
                   IN IF count.v = 0 THEN index.P
                      ELSE IF P.currfunc = NoFunc THEN Abort(index.P)
                      ELSE [index.P EXCEPT !.funcs[P.currfunc].stvarb_typelist =
                                              @ \o [i \in 1..count.v |-> index.v]]
              ELSE putErrorLine0(P)
         [] sec = "ks_program" /\ code = <<"e", "n", "t", "r", "y">> ->
              IF Len(list) = 1
              THEN LET id == parseIdentifier(P, list[1])
                   IN [id.P EXCEPT !.entry = id.v]
              ELSE putErrorLine0(P)
         [] sec = "ks_type" /\ code = <<"s", "i", "z", "e">> ->
              IF TimFind(P.tim, P.currtype) < 0 THEN Abort(P)
              ELSE IF Len(list) = 1
              THEN LET n == parseNumber(P, list[1], PointerSize)
                   IN [n.P EXCEPT !.tim[TimFind(P.tim, P.currtype) + 1].size = n.v]
              ELSE putErrorLine0(P)
         [] sec = "ks_datas" /\ code = <<"d", "a", "t", "a">> -> parseData(P, list)
         [] OTHER -> putErrorLine(P, "PEC_URCmd")


\* an instruction of the instruction structure; regs are its register
\* operands as parsed
Inst(class, regs, lit, type) == [class |-> class, regs |-> regs, lit |-> lit, type |-> type]
NullInst == Inst("nullptr", <<>>, <<>>, T_Void)

\* what a parser of one operand printed
Printed(P, r) == SubSeq(r.P.errs, Len(P.errs) + 1, Len(r.P.errs))

\* the operands of a constructor call are parsed in an order the compiler
\* chooses: first to last (ltr) or last to first
RECURSIVE PrintedAll(_, _)
PrintedAll(P, rs) ==
    IF rs = <<>> THEN <<>> ELSE Printed(P, Head(rs)) \o PrintedAll(P, Tail(rs))

Reverse(s) == [i \in 1..Len(s) |-> s[Len(s) + 1 - i]]

Operands(P, rs, ltr) ==
    [P EXCEPT !.errs = @ \o PrintedAll(P, IF ltr THEN rs ELSE Reverse(rs))]

\* parseFuncInstBase: [P, inst]; an operand word the line does not have is
\* read past the end of the list: the process ends (u.crash) or an
\* instruction of indeterminate operands is built
parseFuncInstBase(P, code, list, u) ==
    LET class == InstClass(code)
        short == [P |-> IF u.crash THEN Abort(P) ELSE P,
                  inst |-> Inst(class, <<>>, Indeterminate, Indeterminate)]
    IN CASE class = "Move" ->
              IF Len(list) < 2 THEN short
              ELSE LET dst == parseRegister(P, list[1])
                       src == parseRegister(P, list[2])
                   IN [P |-> Operands(P, <<dst, src>>, u.ltr),
                       inst |-> Inst(class, <<dst.v, src.v>>, <<>>, T_Void)]
         [] class = "Load" ->
              IF Len(list) < 3 THEN short
              ELSE LET dst == parseRegister(P, list[1])
                       type == parseType(P, list[3])
                   IN IF list[2][1] # "#"
                      THEN LET data == parseDataInstErr(P, list[2])
                           IN [P |-> Operands(P, <<dst, data, type>>, u.ltr),
                               inst |-> Inst("Load1", <<dst.v>>, data.v, type.v)]
                      ELSE LET di == parseDataIndex(P, list[2])
                           IN [P |-> Operands(P, <<dst, di, type>>, u.ltr),
                               inst |-> Inst("Load2", <<dst.v>>, di.v, type.v)]
         [] class = "Return" -> [P |-> P, inst |-> Inst(class, <<>>, <<>>, T_Void)]
         [] class = "Debug_OutputRegister" ->
              [P |-> P, inst |-> Inst(class, <<>>, <<>>, T_Void)]
         [] OTHER -> [P |-> putErrorLineAt(P, "PEC_URIns", code), inst |-> NullInst]

\* parseFuncInst: the instruction is pushed onto currfunc's list; through
\* an indeterminate currfunc the push ends the process (u.crash) or lands
\* in memory that is not the ParseInfo's
parseFuncInst(P, code, list, u) ==
    LET r == parseFuncInstBase(P, code, list, u)
    IN IF r.P.status = "aborted" THEN r.P
       ELSE IF P.currfunc = NoFunc THEN (IF u.crash THEN Abort(r.P) ELSE r.P)
       ELSE [r.P EXCEPT !.funcs[P.currfunc].instdata = Append(@, r.inst)]

\* parseLine of a non-empty line
parseLine(P, line, u) ==
    LET fc == line[1]
        words == split(line)
        list == IF words = <<>> THEN <<>> ELSE Tail(words)
    IN IF fc = "."
       THEN LET code == getSectionKeyMap(Tail(words[1]))
                P1 == IF code # "ks_nil" THEN [P EXCEPT !.currsection = code]
                      ELSE putErrorLine0(P)
            IN parseSection(P1, code, list)
       ELSE IF isblank(fc)
       THEN IF words = <<>> THEN parseSectionInside(P, <<>>, list)
            ELSE IF words[1][1] # "." THEN parseFuncInst(P, words[1], list, u)
            ELSE parseSectionInside(P, Tail(words[1]), list)
       ELSE putErrorLine0(P)

\* what a line may change, kept to compare with
Snapshot(P) ==
    [functable |-> P.functable, funcs |-> P.funcs, currfunc |-> P.currfunc,
     tim |-> P.tim, datamap |-> P.datamap, entry |-> P.entry,
     currtype |-> P.currtype, currsection |-> P.currsection, errs |-> P.errs,
     oob |-> P.oob]

\* the text of a line before its comment
RemoveComment(text) ==
    LET comment_post == IndexOf(text, ";", 1)
    IN IF comment_post # 0 THEN SubSeq(text, 1, comment_post - 1) ELSE text

\* one turn of parseFile's loop
parseFile(P, text, u) ==
    LET P1 == [P EXCEPT !.lcount = @ + 1, !.line = text, !.above = P.line,
                        !.pre = Snapshot(P)]
        line == RemoveComment(text)
    IN IF line = <<>> THEN P1 ELSE parseLine(P1, line, u)

\* createParseInfo on the registry of a new program
ParseInfo0 ==
    [functable |-> << >>, funcs |-> <<>>, currfunc |-> NoFunc, tim |-> BaseTim,
     datamap |-> << >>, lcount |-> 0, entry |-> <<>>, currtype |-> <<>>,
     currsection |-> "ks_nil", errs |-> <<>>, oob |-> FALSE,
     status |-> "parsing", line |-> <<>>, above |-> <<>>, pre |-> <<>>]

\* longest source file, in lines
MaxLines == 4

\* the lines a source file is made of
SourceLines ==
    {
      \* ".type a"
      <<".", "t", "y", "p", "e", " ", "a">>,
      \* ".type b"
      <<".", "t", "y", "p", "e", " ", "b">>,
      \* " .size 2"
      <<" ", ".", "s", "i", "z", "e", " ", "2">>,
      \* ".func f"
      <<".", "f", "u", "n", "c", " ", "f">>,
      \* " .dyvarb 2"
      <<" ", ".", "d", "y", "v", "a", "r", "b", " ", "2">>,
      \* " .stvarb 1, a"
      <<" ", ".", "s", "t", "v", "a", "r", "b", " ", "1", ",", " ", "a">>,
      \* " mov %1, %0"
      <<" ", "m", "o", "v", " ", "%", "1", ",", " ", "%", "0">>,
      \* " ret"
      <<" ", "r", "e", "t">>,
      \* " load %1, #1, a"
      <<" ", "l", "o", "a", "d", " ", "%", "1", ",", " ", "#", "1", ",", " ", "a">>,
      \* ".datas"
      <<".", "d", "a", "t", "a", "s">>,
      \* " .data #1 0x123 1"
      <<" ", ".", "d", "a", "t", "a", " ", "#", "1", " ", "0", "x", "1", "2", "3", " ", "1">>,
      \* " .data #1 0x12 2"
      <<" ", ".", "d", "a", "t", "a", " ", "#", "1", " ", "0", "x", "1", "2", " ", "2">>,
      \* " .data #1 0x1234 1"
      <<" ", ".", "d", "a", "t", "a", " ", "#", "1", " ", "0", "x", "1", "2", "3", "4", " ", "1">>,
      \* " data #1 0x12 2"
      <<" ", "d", "a", "t", "a", " ", "#", "1", " ", "0", "x", "1", "2", " ", "2">>,
      \* "; c"
      <<";", " ", "c">>,
      \* ""
      <<>>,
      \* " "
      <<" ">>,
      \* ".func"
      <<".", "f", "u", "n", "c">>,
      \* ".func %%"
      <<".", "f", "u", "n", "c", " ", "%", "%">>,
      \* " .arg 1"
      <<" ", ".", "a", "r", "g", " ", "1">>
    }

InitParse ==
    /\ InitRun
    /\ func = <<>>
    /\ pinfo = ParseInfo0

\* the file has another line: it is read and parsed
ReadLine ==
    /\ pinfo.status = "parsing"
    /\ pinfo.lcount < MaxLines
    /\ \E text \in SourceLines, ltr \in BOOLEAN, crash \in BOOLEAN :
          pinfo' = parseFile(pinfo, text, [ltr |-> ltr, crash |-> crash])
    /\ UNCHANGED rtvars

\* the file is at its end: parseFile returns
EndOfFile ==
    /\ pinfo.status = "parsing"
    /\ pinfo' = [pinfo EXCEPT !.status = "eof"]
    /\ UNCHANGED rtvars

NextParse ==
    \/ ReadLine
    \/ EndOfFile

-----------------------------------------------------------------------------
vars == <<rtvars, pinfo>>

Init == InitRun /\ pinfo = ParseInfo0

Next == NextRun

Spec == Init /\ [][Next]_vars

\* an entry function one instruction longer than the longest of InitRun
InitLong ==
    /\ InitEnvironments
    /\ pinfo = ParseInfo0
    /\ \E codes \in [1..(MaxInsts + 1) -> RunCodes] : func = FuncOf(codes)

\* the runs of the longer entry functions
LongSpec == InitLong /\ [][Next]_vars

\* the parser reading a source file
ParseSpec == InitParse /\ [][NextParse]_vars

-----------------------------------------------------------------------------
(* Building the environment tree (include/runtime/environment.h) *)

\* most calls of addSubEnvironment in one construction
MaxAdds == 3

\* a global environment, a thread environment and two local environments
TreeEnvIds == {"G", "T", "L", "M"}

\* the environments after their constructors: no links, and a registry
\* only in the global environment
InitTree ==
    /\ tim = BaseTim
    /\ heap = <<>>
    /\ dyvarb = [e \in TreeEnvIds |-> <<>>]
    /\ stvarb = [e \in TreeEnvIds |-> <<>>]
    /\ sttype = [e \in TreeEnvIds |-> <<>>]
    /\ penv = [e \in TreeEnvIds |-> NullEnv]
    /\ tenv = [e \in TreeEnvIds |-> NullEnv]
    /\ timp = [e \in TreeEnvIds |-> IF e = "G" THEN "G" ELSE NullEnv]
    /\ subenv_set = [e \in TreeEnvIds |-> <<>>]
    /\ pc = 0
    /\ func = <<>>
    /\ state = "running"
    /\ last = NoLast
    /\ pinfo = ParseInfo0

\* Environment::SetPEnv(penv) on envp: the assertion stops a build with
\* assertions when the link is already set; a build without them stores
\* the link again
SetPEnv(envp, parent, asserts) ==
    IF penv[envp] # NullEnv /\ asserts
    THEN [ok |-> FALSE, penv |-> penv]
    ELSE [ok |-> TRUE, penv |-> [penv EXCEPT ![envp] = parent]]

\* Environment::SetTypeInfoMap(timp) on envp
SetTypeInfoMap(t, envp, registry) == [t EXCEPT ![envp] = registry]

\* self.addSubEnvironment(envp): Environment's body, and after it the
\* registry hand-over when self is the GlobalEnvironment
addSubEnvironment(self, envp, asserts) ==
    LET set == SetPEnv(envp, self, asserts)
        call == [op |-> "add", self |-> self, envp |-> envp,
                 pre |-> [penv |-> penv, timp |-> timp]]
    IN /\ last' = call
       /\ IF set.ok
          THEN /\ penv' = set.penv
               /\ subenv_set' = [subenv_set EXCEPT ![self] = Append(@, envp)]
               /\ timp' = IF self = "G"
                          THEN SetTypeInfoMap(timp, envp, timp[self])
                          ELSE timp
               /\ state' = state
          ELSE /\ state' = "crashed"
               /\ UNCHANGED <<penv, subenv_set, timp>>
       /\ UNCHANGED <<tim, heap, dyvarb, stvarb, sttype, tenv, pc, func, pinfo>>

\* number of addSubEnvironment calls that returned
Adds == Len(subenv_set["G"]) + Len(subenv_set["T"]) + Len(subenv_set["L"]) + Len(subenv_set["M"])

AddSub ==
    /\ state = "running"
    /\ Adds < MaxAdds
    /\ \E self \in TreeEnvIds : \E envp \in TreeEnvIds \ {"G", self} :
          \E asserts \in BOOLEAN : addSubEnvironment(self, envp, asserts)

NextTree == AddSub

\* the construction of an environment tree
TreeSpec == InitTree /\ [][NextTree]_vars

\* the VM loop runs an instruction to completion before the next begins
\* and never waits
FairSpec == Spec /\ WF_vars(Next)

-----------------------------------------------------------------------------
(* Properties of the data-move primitives *)

Executed(ops) == last.op \in ops /\ state # "crashed"

DynAt(dst) == dyvarb[dst.env][dst.idx]

\* the register a compiled source operand names, before the instruction
SrcIsDynamic == last.src.reg.kind = "dyn"

\* C1: after a mov between two dynamic registers the destination has the
\* type of the source and the very pointer of the source, no byte of the
\* heap is copied, and the source register is as it was.
C1_MovDynamicShares ==
    (Executed({"mov"}) /\ last.dst.mode = drm_register_dynamic /\ SrcIsDynamic) =>
        LET se == getDataRegisterSet("L", last.src.reg.etype)
            si == last.src.reg.idx + 1
        IN /\ DynAt(last.dst).type = last.src.type
           /\ DynAt(last.dst).data = last.src.data
           /\ DynAt(last.dst) = dyvarb[se][si]
           /\ dyvarb[se][si] = last.pre.dy[se][si]
           /\ heap = last.pre.heap

C1_Witness ==
    /\ Executed({"mov"})
    /\ last.dst.mode = drm_register_dynamic
    /\ SrcIsDynamic
    /\ last.src.data # NullPtr
    /\ last.dst.env # getDataRegisterSet("L", last.src.reg.etype)

\* C2: after a mov into a static register S from a register R, S keeps its
\* declared type and each of the first sizeof(declared type) bytes of S
\* equals the byte of R's data at the same offset.
C2_MovStaticCopiesDeclaredSize ==
    (Executed({"mov"}) /\ last.dst.mode = drm_register_static
                       /\ last.src.reg.kind \in {"dyn", "st"}
                       /\ last.src.data # NullPtr) =>
        LET declared == sttype[last.dst.env][last.dst.idx]
            S == heap[stvarb[last.dst.env][last.dst.idx]]
            R == BufOf(heap, last.src.data)
        IN /\ declared = EntryFunc.stvarb_typelist[last.dst.idx]
           /\ \A i \in 1..GetSize(tim, declared) :
                 i <= Len(S) /\ i <= Len(R) /\ S[i] = R[i]

\* C3: after a load of a literal into a dynamic register D with type t,
\* D has type t and a buffer of sizeof(t) bytes: the first
\* min(sizeof(t), length of the literal) are the literal's, the rest zero.
C3_LoadDynamic ==
    (Executed({"load1", "load2"}) /\ last.dst.mode = drm_register_dynamic) =>
        LET D == DynAt(last.dst)
            buf == BufOf(heap, D.data)
            size == GetSize(tim, last.type)
        IN /\ D.type = last.type
           /\ Len(buf) = size
           /\ \A i \in 1..size :
                 buf[i] = IF i <= Min(size, Len(last.lit)) THEN last.lit[i] ELSE 0

\* the immediate 0x1234 in a pointer-sized register: two bytes of literal,
\* least significant first, then zeros
C3_Witness ==
    /\ Executed({"load1"})
    /\ last.dst.mode = drm_register_dynamic
    /\ BufOf(heap, DynAt(last.dst).data) = <<52, 18, 0, 0>>

\* C4: every static register of every environment has its declared type
\* and a buffer as long as the registry says that type is.
C4_StaticBuffers ==
    /\ sttype = [e \in EnvIds |-> IF e = "L" THEN EntryFunc.stvarb_typelist ELSE <<>>]
    /\ \A e \in EnvIds : \A i \in DOMAIN stvarb[e] :
          /\ stvarb[e][i] \in DOMAIN heap
          /\ Len(heap[stvarb[e][i]]) = GetSize(tim, sttype[e][i])

\* a pointer was stored into a static register too small for it
C4_Witness ==
    /\ Executed({"loadp"})
    /\ last.dst.mode = drm_register_static
    /\ last.spill > 0

\* C5: every dynamic register with data points to a region at least as
\* long as the registry says its type is.
C5_DynamicRegions ==
    \A e \in EnvIds : \A i \in DOMAIN dyvarb[e] :
        dyvarb[e][i].data # NullPtr =>
            /\ dyvarb[e][i].data \in DOMAIN heap
            /\ Len(heap[dyvarb[e][i].data]) >= GetSize(tim, dyvarb[e][i].type)

\* a dynamic register that borrowed the buffer of a static register, after
\* another was given a pointer
C5_Witness ==
    /\ \E i \in DOMAIN dyvarb["L"] : dyvarb["L"][i].data = stvarb["L"][1]
    /\ \E e \in EnvIds : \E i \in DOMAIN dyvarb[e] : dyvarb[e][i].type = T_Pointer

-----------------------------------------------------------------------------
(* Properties of the control flow *)

RetExecuted == last.op # "none" /\ last.code = "ret"

\* C6: once the instruction of a ret line has run the activation is over:
\* the state is returned, the cursor stays at the ret, and no step changes
\* anything afterwards.
C6_RetEnds ==
    /\ [](RetExecuted => (state = "returned" /\ pc = last.pc))
    /\ [][RetExecuted => UNCHANGED vars]_vars

\* a ret that is followed by further instructions
C6_Witness == RetExecuted /\ last.pc + 1 < Len(func)

-----------------------------------------------------------------------------
(* Properties of the parser and of the compiler's register resolution *)

\* the words of the line read last
LineWords == split(RemoveComment(pinfo.line))

\* what the line read last printed
LineErrs == SubSeq(pinfo.errs, Len(pinfo.pre.errs) + 1, Len(pinfo.errs))

Reported(msg) ==
    \E i \in 1..Len(LineErrs) : LineErrs[i].msg = msg /\ LineErrs[i].line = pinfo.lcount

\* Compile of a function of the instruction structure: the register layout
\* and, per instruction, its register operands resolved and the errors of
\* resolving its type and its data index
Compile(P, fi) ==
    [dysize |-> fi.dyvarb_count,
     stvarb_typelist |-> fi.stvarb_typelist,
     instdata |->
        [k \in 1..Len(fi.instdata) |->
           LET inst == fi.instdata[k]
           IN [class |-> inst.class,
               regs |-> [j \in 1..Len(inst.regs) |->
                           [reg |-> inst.regs[j],
                            res |-> CompileRegister(inst.regs[j], fi.dyvarb_count)]],
               errs |-> (IF inst.class \in {"Load1", "Load2"} /\ inst.type >= Len(P.tim)
                         THEN {"UndefinedType"} ELSE {})
                        \cup
                        (IF inst.class = "Load2" /\ ~MapHas(P.datamap, inst.lit)
                         THEN {"UndefinedDataIndex"} ELSE {})]]]

ParsesCleanly == pinfo.status = "eof" /\ pinfo.errs = <<>>

CompilesCleanly ==
    \A f \in 1..Len(pinfo.funcs) :
       LET c == Compile(pinfo, pinfo.funcs[f])
       IN \A k \in 1..Len(c.instdata) : c.instdata[k].errs = {}

\* a class-n operand of the function's own environment names a slot the
\* function's register file has
InBounds(c, r) ==
    (r.reg.rtype = "r_n" /\ r.reg.etype = "e_current") =>
        \/ r.res.kind = "dyn" /\ r.res.idx < c.dysize
        \/ r.res.kind = "st" /\ r.res.idx < Len(c.stvarb_typelist)

\* C8: in a program that parsed and compiled without error, every class-n
\* register operand of every instruction resolves to a slot of its
\* function's register file: a dynamic register below dyvarb_count, or the
\* static register (index - dyvarb_count) below the length of the type list.
C8_RegistersInBounds ==
    (ParsesCleanly /\ CompilesCleanly) =>
        \A f \in 1..Len(pinfo.funcs) :
           LET c == Compile(pinfo, pinfo.funcs[f])
           IN \A k \in 1..Len(c.instdata) :
                 \A j \in 1..Len(c.instdata[k].regs) : InBounds(c, c.instdata[k].regs[j])

\* the line read last is a .type header naming a type the registry holds
DuplicateTypeHeader ==
    /\ pinfo.lcount > 0
    /\ pinfo.status # "aborted"
    /\ Len(LineWords) = 2
    /\ LineWords[1] = <<".", "t", "y", "p", "e">>
    /\ pinfo.line[1] = "."
    /\ TimFind(pinfo.pre.tim, parseIdentifier(pinfo, LineWords[2]).v) >= 0

\* C9: a .type header whose name the registry already holds reports
\* "type name duplicate", adds no entry to the registry and leaves every
\* declared type at the index it had.
C9_DuplicateType ==
    DuplicateTypeHeader =>
        /\ Reported("type name duplicate")
        /\ Len(pinfo.tim) = Len(pinfo.pre.tim)
        /\ \A i \in 1..Len(pinfo.pre.tim) :
              TimFind(pinfo.tim, pinfo.pre.tim[i].name) = i - 1

\* a duplicate header after two declarations of the program's own
C9_Witness ==
    /\ DuplicateTypeHeader
    /\ pinfo.lcount = 3
    /\ Len(pinfo.pre.tim) = Len(BaseTim) + 2

\* the line read last is a data directive of the datas section, with a hex
\* payload, a decimal capacity and an index no blob is stored under
DataDirective ==
    /\ pinfo.lcount > 0
    /\ pinfo.pre.currsection = "ks_datas"
    /\ pinfo.line # <<>>
    /\ isblank(pinfo.line[1])
    /\ Len(LineWords) = 4
    /\ LineWords[1] = <<".", "d", "a", "t", "a">>
    /\ LineWords[2][1] = "#"
    /\ is_integer(Tail(LineWords[2]), 10)
    /\ ~MapHas(pinfo.pre.datamap, NumVal(Tail(LineWords[2]), 10, Len(LineWords[2]) - 1))
    /\ Len(LineWords[3]) > 2
    /\ SubSeq(LineWords[3], 1, 2) = <<"0", "x">>
    /\ is_integer(SubSeq(LineWords[3], 3, Len(LineWords[3])), 16)
    /\ is_integer(LineWords[4], 10)

DataIndexOfLine == NumVal(Tail(LineWords[2]), 10, Len(LineWords[2]) - 1)
PayloadOfLine == to_base16(SubSeq(LineWords[3], 3, Len(LineWords[3])))
CapacityOfLine == NumVal(LineWords[4], 10, Len(LineWords[4]))

\* C10: a data directive with an unused index whose payload has more bytes
\* than the capacity reports "Number too large" and stores no blob;
\* otherwise it stores a blob of exactly capacity bytes, the payload first
\* and zeros after it, and writes no byte outside the blob.
C10_DataDirective ==
    DataDirective =>
        IF Len(PayloadOfLine) > CapacityOfLine
        THEN /\ Reported("Number too large")
             /\ ~MapHas(pinfo.datamap, DataIndexOfLine)
        ELSE /\ MapHas(pinfo.datamap, DataIndexOfLine)
             /\ Len(pinfo.datamap[DataIndexOfLine]) = CapacityOfLine
             /\ \A i \in 1..CapacityOfLine :
                   pinfo.datamap[DataIndexOfLine][i] =
                      (IF i <= Len(PayloadOfLine) THEN PayloadOfLine[i] ELSE 0)
             /\ ~pinfo.oob

\* C11: a parse error never stops parsing: whatever the line read last
\* was, what it printed carries its line number and the parser goes on to
\* the lines after it.
C11_ErrorsNeverStop ==
    pinfo.lcount > 0 =>
        /\ pinfo.status # "aborted"
        /\ \A i \in 1..Len(LineErrs) : LineErrs[i].line = pinfo.lcount

\* createFunctionSet: a Function per entry of the function table
createFunctionSet(P) == [k \in DOMAIN P.functable |-> P.funcs[P.functable[k]]]
getEntry(P) == P.entry
getDataSectionMap(P) == P.datamap

\* what the parser hands over after parseFile: the function set, the
\* entry, the data section map and the registry it filled
ParseResult(P) ==
    [fset |-> createFunctionSet(P), entry |-> getEntry(P),
     datas |-> getDataSectionMap(P), tim |-> P.tim]

\* the line read last printed the first parse error of the file
FirstErrorLine ==
    /\ pinfo.lcount > 0
    /\ pinfo.status # "aborted"
    /\ pinfo.pre.errs = <<>>
    /\ LineErrs # <<>>

\* C12: a parse error can be told from the parser's result: the result
\* after the first line that printed an error differs from the result of
\* the same file with that line empty, which parses without error.
C12_ErrorObservable ==
    FirstErrorLine => ParseResult(pinfo) # ParseResult(pinfo.pre)

-----------------------------------------------------------------------------
(* Further properties of the data-move primitives *)

\* the instruction executed last wrote to the zero register
ZeroDestination ==
    /\ Executed({"mov", "load1", "load2", "loadp"})
    /\ last.d.kind = "null"

\* type, pointer and bytes of every register of every environment are what
\* they were before the instruction executed last
RegistersUnchanged ==
    /\ dyvarb = last.pre.dy
    /\ stvarb = last.pre.st
    /\ \A e \in EnvIds :
          /\ \A i \in 1..Len(dyvarb[e]) :
                BufOf(heap, dyvarb[e][i].data) = BufOf(last.pre.heap, dyvarb[e][i].data)
          /\ \A i \in 1..Len(stvarb[e]) :
                BufOf(heap, stvarb[e][i]) = BufOf(last.pre.heap, stvarb[e][i])

\* C13: a mov or a load whose destination is the zero register has no
\* effect: every register of every environment keeps its type, its data
\* pointer and its bytes.
C13_ZeroDestinationNoEffect == ZeroDestination => RegistersUnchanged

\* a mov of a loaded register into the zero register
C13_Witness ==
    /\ ZeroDestination
    /\ last.op = "mov"
    /\ last.src.data # NullPtr

\* the instruction executed last was a mov into a static register from a
\* register
MovedIntoStatic ==
    /\ Executed({"mov"})
    /\ last.dst.mode = drm_register_static
    /\ last.src.reg.kind \in {"dyn", "st"}

\* the step executes the next instruction, and its destination is not the
\* destination of the instruction before it
NextWritesElsewhere ==
    /\ state' # "crashed"
    /\ last'.op # "none"
    /\ last'.pc = last.pc + 1
    /\ last'.dst # last.dst

\* C14: after a mov into a static register S from a register R, an
\* instruction whose destination is not S (a load or a mov into R or into
\* any other register) leaves the bytes of S as they are.
C14_StaticCopyIndependent ==
    [][(MovedIntoStatic /\ NextWritesElsewhere) =>
          heap'[stvarb[last.dst.env][last.dst.idx]]
             = heap[stvarb[last.dst.env][last.dst.idx]]]_vars

-----------------------------------------------------------------------------
(* Further properties of the parser *)

\* the line read last is an indented line of at least one word, read
\* without the process ending
IndentedLine ==
    /\ pinfo.lcount > 0
    /\ pinfo.status # "aborted"
    /\ RemoveComment(pinfo.line) # <<>>
    /\ isblank(pinfo.line[1])
    /\ LineWords # <<>>

\* the line read last is the directive arg or data inside a function
ReservedDirective ==
    /\ IndentedLine
    /\ pinfo.pre.currsection = "ks_func"
    /\ LineWords[1] \in {<<".", "a", "r", "g">>, <<".", "d", "a", "t", "a">>}

\* C15: inside a .func section the reserved directives arg and data are
\* accepted: no parse error, and the functions (dyvarb count, stvarb type
\* list, instruction list) are what they were.
C15_ReservedDirectives ==
    ReservedDirective =>
        /\ LineErrs = <<>>
        /\ pinfo.funcs = pinfo.pre.funcs

\* the line read last is empty, or holds nothing but blanks before its
\* end or before its comment
SkippableLine ==
    /\ pinfo.lcount > 0
    /\ \A i \in 1..Len(RemoveComment(pinfo.line)) : isblank(RemoveComment(pinfo.line)[i])

\* C16: an empty line, a line of a comment only and a line of blanks only
\* are skipped: no error is printed and nothing of the ParseInfo but the
\* line counter changes.
C16_SkippedLines ==
    SkippableLine =>
        /\ pinfo.status # "aborted"
        /\ LineErrs = <<>>
        /\ Snapshot(pinfo) = pinfo.pre

\* the line read last is a section header of one argument
Header(name) ==
    /\ pinfo.lcount > 0
    /\ pinfo.status # "aborted"
    /\ pinfo.line # <<>>
    /\ pinfo.line[1] = "."
    /\ Len(LineWords) = 2
    /\ LineWords[1] = <<".">> \o name

\* the identifier a word stands for
IdentifierOf(word) == parseIdentifier(pinfo, word).v

\* the line read last is a .func header whose identifier is that of a
\* function declared before it
DuplicateFuncHeader ==
    /\ Header(<<"f", "u", "n", "c">>)
    /\ \E k \in DOMAIN pinfo.pre.functable : IdentifierOf(k) = IdentifierOf(LineWords[2])

\* C17: a .func header whose identifier, unescaped, is that of a declared
\* function reports "func name duplicate" and neither adds nor replaces an
\* entry of the function table.
C17_DuplicateFunc ==
    DuplicateFuncHeader =>
        /\ Reported("func name duplicate")
        /\ pinfo.functable = pinfo.pre.functable

\* the words of the line above the line read last
AboveWords == split(RemoveComment(pinfo.above))

\* the line read last is a size directive of one number and the line above
\* it is a .type header of one name
SizeUnderTypeHeader ==
    /\ IndentedLine
    /\ Len(LineWords) = 2
    /\ LineWords[1] = <<".", "s", "i", "z", "e">>
    /\ is_integer(LineWords[2], 10)
    /\ pinfo.lcount > 1
    /\ pinfo.above # <<>>
    /\ pinfo.above[1] = "."
    /\ Len(AboveWords) = 2
    /\ AboveWords[1] = <<".", "t", "y", "p", "e">>

\* C18: a size directive sets the size of the type the nearest .type
\* header before it names, and the size of no other type.
C18_SizeOfNearestType ==
    SizeUnderTypeHeader =>
        LET index == TimFind(pinfo.tim, IdentifierOf(AboveWords[2]))
        IN /\ index >= 0
           /\ Len(pinfo.tim) = Len(pinfo.pre.tim)
           /\ \A i \in 1..Len(pinfo.tim) :
                 pinfo.tim[i].size =
                    (IF i = index + 1 THEN NumVal(LineWords[2], 10, Len(LineWords[2]))
                     ELSE pinfo.pre.tim[i].size)

\* the line read last is an instruction line below a .func header
InstructionLine ==
    /\ IndentedLine
    /\ LineWords[1][1] # "."
    /\ pinfo.pre.currfunc # NoFunc

\* C19: an instruction line adds one entry at the end of the instruction
\* list of the function of the nearest .func header before it and leaves
\* the list of every other function as it was, and no entry of any list is
\* a null instruction.
C19_InstructionsAppended ==
    InstructionLine =>
        /\ Len(pinfo.funcs) = Len(pinfo.pre.funcs)
        /\ \A f \in 1..Len(pinfo.funcs) :
              /\ pinfo.funcs[f].instdata # pinfo.pre.funcs[f].instdata
                    => /\ f = pinfo.pre.currfunc
                       /\ Len(pinfo.funcs[f].instdata) = Len(pinfo.pre.funcs[f].instdata) + 1
                       /\ SubSeq(pinfo.funcs[f].instdata, 1, Len(pinfo.pre.funcs[f].instdata))
                             = pinfo.pre.funcs[f].instdata
              /\ f = pinfo.pre.currfunc
                    => pinfo.funcs[f].instdata # pinfo.pre.funcs[f].instdata
              /\ \A k \in 1..Len(pinfo.funcs[f].instdata) :
                    pinfo.funcs[f].instdata[k] # NullInst

-----------------------------------------------------------------------------
(* Bounds of the writes into static registers *)

\* a mov, load or pointer-load has written into a static register
WroteStatic ==
    /\ Executed({"mov", "load1", "load2", "loadp"})
    /\ last.dst.mode = drm_register_static

\* C20: a mov, load or pointer-load into a static register clears or
\* copies no byte beyond the end of that register's buffer.
C20_StaticWritesInBuffer == WroteStatic => last.spill = 0

-----------------------------------------------------------------------------
(* Properties of the environment tree *)

\* the parent links lead from environment e up to the global environment
\* in at most n steps
RECURSIVE Reaches(_, _)
Reaches(e, n) ==
    IF e = "G" THEN TRUE
    ELSE IF n = 0 \/ penv[e] = NullEnv THEN FALSE
    ELSE Reaches(penv[e], n - 1)

\* the environments of the tree below the global environment
BelowGlobal == {e \in DOMAIN penv \ {"G"} : Reaches(e, Cardinality(DOMAIN penv))}

\* C21: every environment of the tree below the global environment has
\* the global environment's registry as its type registry, and the
\* environment added last, when it had no parent before, has the
\* environment it was added to as its parent.
C21_TreeSharesRegistry ==
    /\ \A e \in BelowGlobal : timp[e] # NullEnv /\ timp[e] = timp["G"]
    /\ (last.op = "add" /\ state # "crashed" /\ last.pre.penv[last.envp] = NullEnv)
          => penv[last.envp] = last.self

-----------------------------------------------------------------------------
(* Frame of a load into a dynamic register *)

\* the instruction executed last loaded a literal, immediate or from the
\* data pool, into a dynamic register
LoadedDynamic ==
    /\ Executed({"load1", "load2"})
    /\ last.dst.mode = drm_register_dynamic

\* type and bytes seen through every register but the destination of the
\* instruction executed last are what they were before it
OtherRegistersKept ==
    \A e \in EnvIds :
       /\ \A i \in 1..Len(dyvarb[e]) :
             (e # last.dst.env \/ i # last.dst.idx) =>
                /\ dyvarb[e][i].type = last.pre.dy[e][i].type
                /\ BufOf(heap, dyvarb[e][i].data)
                      = BufOf(last.pre.heap, last.pre.dy[e][i].data)
       /\ \A i \in 1..Len(stvarb[e]) :
             BufOf(heap, stvarb[e][i]) = BufOf(last.pre.heap, last.pre.st[e][i])

\* the destination's buffer is a block that did not exist before (or no
\* block at all, when calloc gave nullptr for a type of no bytes)
FreshBuffer ==
    LET p == dyvarb[last.dst.env][last.dst.idx].data
    IN /\ p \notin DOMAIN last.pre.heap
       /\ p = NullPtr => GetSize(tim, last.type) = 0

\* C22: a load into a dynamic register gives the register a fresh buffer
\* and leaves the type and the bytes seen through every other dynamic or
\* static register as they were.
C22_LoadDynamicFrame == LoadedDynamic => (FreshBuffer /\ OtherRegistersKept)

\* the destination shared its buffer with another dynamic register, and
\* the load gave it other bytes
C22_Witness ==
    /\ LoadedDynamic
    /\ last.pre.dy[last.dst.env][last.dst.idx].data # NullPtr
    /\ \E e \in EnvIds : \E i \in 1..Len(dyvarb[e]) :
          /\ (e # last.dst.env \/ i # last.dst.idx)
          /\ last.pre.dy[e][i].data = last.pre.dy[last.dst.env][last.dst.idx].data
    /\ BufOf(heap, dyvarb[last.dst.env][last.dst.idx].data)
          # BufOf(last.pre.heap, last.pre.dy[last.dst.env][last.dst.idx].data)

====
